---- MODULE Spec2Model ----
(***************************************************************************)
(* A model of rdma_map.go (package rdmamap): the sysfs walk that maps      *)
(* network interfaces to RDMA devices, the node_guid parser, the           *)
(* character-device lookup and the directory enumerators.                  *)
(*                                                                         *)
(* Go strings are sequences of one-character strings ("" is <<>>), byte    *)
(* slices are sequences of integers 0..255 (nil is <<>>), and the          *)
(* pseudo-filesystem is a tree held in the variable fs.                    *)
(***************************************************************************)
EXTENDS Integers, Sequences, FiniteSets, TLC

VARIABLES fs, links, pc, call, loc, ret, trace

vars == <<fs, links, pc, call, loc, ret, trace>>

-----------------------------------------------------------------------------
(* Bounds of the model.                                                    *)

MaxDevs == 2
MaxPorts == 2
MaxIdx == 2
GuidLen == 8

-----------------------------------------------------------------------------
(* Program constants.                                                      *)

nibbleBitSize == 4
prevDir == <<".", ".">>
RdmaUcmFilePrefix == <<"u", "c", "m">>
RdmaIssmFilePrefix == <<"i", "s", "s", "m">>
RdmaUmadFilxPrefix == <<"u", "m", "a", "d">>
RdmaUverbsFilxPrefix == <<"u", "v", "e", "r", "b", "s">>
RdmaDeviceDir == <<"/", "d", "e", "v", "/", "i", "n", "f", "i", "n", "i", "b", "a", "n", "d">>
RdmaUcmDevice == RdmaDeviceDir \o <<"/", "r", "d", "m", "a", "_", "c", "m">>

-----------------------------------------------------------------------------
(* Strings.                                                                *)

NL == "\n"
Digits == <<"0", "1", "2", "3", "4", "5", "6", "7", "8", "9">>
HexLower == Digits \o <<"a", "b", "c", "d", "e", "f">>
HexUpper == Digits \o <<"A", "B", "C", "D", "E", "F">>

Range(s) == {s[i] : i \in 1..Len(s)}

\* filepath.Join(dir, name) for a clean dir and a plain name
Join(dir, name) == dir \o <<"/">> \o name

\* filepath.Base of a path: what follows its last separator
RECURSIVE Base(_)
Base(p) ==
  IF \E i \in 1..Len(p) : p[i] = "/"
    THEN Base(Tail(p))
    ELSE p

\* strings.TrimSuffix(s, "\n"): drops one trailing newline, if there is one
TrimSuffixNL(s) ==
  IF Len(s) > 0 /\ s[Len(s)] = NL THEN SubSeq(s, 1, Len(s) - 1) ELSE s

\* strings.Trim(s, "\n"): drops every leading and trailing newline
RECURSIVE TrimLeftNL(_)
TrimLeftNL(s) ==
  IF Len(s) > 0 /\ s[1] = NL THEN TrimLeftNL(Tail(s)) ELSE s

RECURSIVE TrimRightNL(_)
TrimRightNL(s) ==
  IF Len(s) > 0 /\ s[Len(s)] = NL
    THEN TrimRightNL(SubSeq(s, 1, Len(s) - 1))
    ELSE s

TrimNL(s) == TrimRightNL(TrimLeftNL(s))

\* strings.Contains(s, sub)
Contains(s, sub) ==
  \E i \in 0..(Len(s) - Len(sub)) : SubSeq(s, i + 1, i + Len(sub)) = sub

-----------------------------------------------------------------------------
(* The pseudo-filesystem.                                                  *)
(*                                                                         *)
(* A file is [st, data]: st = "ok" (data is its content), "ENOENT" or      *)
(* "EACCES" (the open fails) or "EISDIR" (the open succeeds, the read      *)
(* fails).  A directory is [st, entries]: st = "ok", "ENOENT" (the open    *)
(* fails) or "ENOTDIR" (the open succeeds, Readdir fails).                 *)

NilErr == "nil"
OpenErrs == {"ENOENT", "EACCES"}

File(data) == [st |-> "ok", data |-> data]
NoFile == [st |-> "ENOENT", data |-> <<>>]
BadFile(errno) == [st |-> errno, data |-> <<>>]

Dir(entries) == [st |-> "ok", entries |-> entries]
NoDir == [st |-> "ENOENT", entries |-> <<>>]
NotDir == [st |-> "ENOTDIR", entries |-> <<>>]

\* The entry of directory d named name, or none
HasEntry(d, name) ==
  d.st = "ok" /\ \E i \in 1..Len(d.entries) : d.entries[i].name = name

EntryOf(d, name) ==
  d.entries[CHOOSE i \in 1..Len(d.entries) : d.entries[i].name = name]

\* <RdmaClassDir>/<dev>/ports
PortsDirOf(f, dev) ==
  IF HasEntry(f.classdir, dev) /\ EntryOf(f.classdir, dev).kind # "file"
    THEN EntryOf(f.classdir, dev).ports
    ELSE NoDir

\* <RdmaClassDir>/<dev>/node_guid
NodeGuidFileOf(f, dev) ==
  IF HasEntry(f.classdir, dev) /\ EntryOf(f.classdir, dev).kind # "file"
    THEN EntryOf(f.classdir, dev).guid
    ELSE NoFile

\* <RdmaClassDir>/<dev>/ports/<port>/gid_attrs/ndevs
NdevsDirOf(f, dev, port) ==
  IF HasEntry(PortsDirOf(f, dev), port)
    THEN EntryOf(PortsDirOf(f, dev), port).ndevs
    ELSE NoDir

\* <RdmaClassDir>/<dev>/ports/<port>/gid_attrs/ndevs/<index>
NdevFileOf(f, dev, port, index) ==
  IF HasEntry(NdevsDirOf(f, dev, port), index)
    THEN EntryOf(NdevsDirOf(f, dev, port), index).file
    ELSE NoFile

\* <bus-root>/<key>/infiniband
BusDirOf(bus, key) ==
  IF key \in DOMAIN bus THEN bus[key] ELSE NoDir

-----------------------------------------------------------------------------
(* Directory enumeration.                                                  *)

\* The names of the entries of a listing, in listing order
Names(entries) == [i \in 1..Len(entries) |-> entries[i].name]

IsDir(e) == e.kind = "dir"

NotDotEntry(e) == ~(e.name = <<".">> \/ e.name = prevDir)

\* The filter of GetRdmaDeviceList without its IsDir test
KeepAnyEntry(e) == TRUE

KeepNonDir(e) == ~IsDir(e)

GetRdmaDeviceList(f) ==
  IF f.classdir.st \in OpenErrs THEN <<>>
  ELSE IF f.classdir.st # "ok" THEN <<>>
  ELSE Names(SelectSeq(f.classdir.entries, KeepNonDir))

GetPorts(f, rdmaDeviceName) ==
  LET d == PortsDirOf(f, rdmaDeviceName) IN
  IF d.st \in OpenErrs THEN <<>>
  ELSE IF d.st # "ok" THEN <<>>
  ELSE Names(SelectSeq(d.entries, NotDotEntry))

getNetdeviceIds(f, rdmaDeviceName, port) ==
  LET d == NdevsDirOf(f, rdmaDeviceName, port) IN
  IF d.st \in OpenErrs THEN <<>>
  ELSE IF d.st # "ok" THEN <<>>
  ELSE Names(SelectSeq(d.entries, NotDotEntry))

KeepDir(e) == IsDir(e)

getRdmaDevicesFromDir(d) ==
  IF d.st # "ok" THEN <<>>
  ELSE Names(SelectSeq(d.entries, KeepDir))

GetRdmaDevicesForPcidev(f, pcidevName) ==
  getRdmaDevicesFromDir(BusDirOf(f.pci, pcidevName))

GetRdmaDevicesForAuxdev(f, deviceID) ==
  getRdmaDevicesFromDir(BusDirOf(f.aux, deviceID))

-----------------------------------------------------------------------------
(* Character devices.                                                      *)

\* ibdev is the file <classDir>/<entry>/ibdev
isDirForRdmaDevice(rdmaDeviceName, ibdev) ==
  IF ibdev.st \in OpenErrs THEN FALSE
  ELSE IF ibdev.st # "ok" THEN FALSE
  ELSE TrimNL(ibdev.data) = rdmaDeviceName

\* The loop of getCharDevice over the listing, from entry i on
RECURSIVE CharDeviceScan(_, _, _, _)
CharDeviceScan(rdmaDeviceName, entries, charDevPrefix, i) ==
  IF i > Len(entries)
    THEN [name |-> <<>>, err |-> "no ucm device found"]
  ELSE IF entries[i].name = <<".">> \/ entries[i].name = prevDir
    THEN CharDeviceScan(rdmaDeviceName, entries, charDevPrefix, i + 1)
  ELSE IF ~Contains(entries[i].name, charDevPrefix)
    THEN CharDeviceScan(rdmaDeviceName, entries, charDevPrefix, i + 1)
  ELSE IF ~isDirForRdmaDevice(rdmaDeviceName, entries[i].ibdev)
    THEN CharDeviceScan(rdmaDeviceName, entries, charDevPrefix, i + 1)
  ELSE [name |-> Join(RdmaDeviceDir, entries[i].name), err |-> NilErr]

getCharDevice(rdmaDeviceName, classDir, charDevPrefix) ==
  IF classDir.st \in OpenErrs THEN [name |-> <<>>, err |-> classDir.st]
  ELSE IF classDir.st # "ok" THEN [name |-> <<>>, err |-> NilErr]
  ELSE CharDeviceScan(rdmaDeviceName, classDir.entries, charDevPrefix, 1)

getUcmDevice(f, rdmaDeviceName) ==
  getCharDevice(rdmaDeviceName, f.cm, RdmaUcmFilePrefix)

getIssmDevice(f, rdmaDeviceName) ==
  getCharDevice(rdmaDeviceName, f.mad, RdmaIssmFilePrefix)

getUmadDevice(f, rdmaDeviceName) ==
  getCharDevice(rdmaDeviceName, f.mad, RdmaUmadFilxPrefix)

getUverbDevice(f, rdmaDeviceName) ==
  getCharDevice(rdmaDeviceName, f.verbs, RdmaUverbsFilxPrefix)

\* f.rdmaCm is what os.Stat(RdmaUcmDevice) answers: "ok" or an errno
getRdmaUcmDevice(f) ==
  IF f.rdmaCm # "ok" THEN [name |-> <<>>, err |-> f.rdmaCm]
  ELSE IF Base(RdmaUcmDevice) = <<"r", "d", "m", "a", "_", "c", "m">>
    THEN [name |-> RdmaUcmDevice, err |-> NilErr]
  ELSE [name |-> <<>>, err |-> "invalid file name rdma_cm"]

AppendIfOk(list, r) == IF r.err = NilErr THEN Append(list, r.name) ELSE list

GetRdmaCharDevices(f, rdmaDeviceName) ==
  LET l1 == AppendIfOk(<<>>, getUcmDevice(f, rdmaDeviceName))
      l2 == AppendIfOk(l1, getIssmDevice(f, rdmaDeviceName))
      l3 == AppendIfOk(l2, getUmadDevice(f, rdmaDeviceName))
      l4 == AppendIfOk(l3, getUverbDevice(f, rdmaDeviceName))
  IN  AppendIfOk(l4, getRdmaUcmDevice(f))

-----------------------------------------------------------------------------
(* Node identifiers.                                                       *)

\* strconv.ParseUint(string(b), 16, 8) of one character: its value, or -1
\* for the syntax error
ParseHexDigit(b) ==
  IF \E i \in 1..Len(HexLower) : HexLower[i] = b
    THEN (CHOOSE i \in 1..Len(HexLower) : HexLower[i] = b) - 1
  ELSE IF \E i \in 1..Len(HexUpper) : HexUpper[i] = b
    THEN (CHOOSE i \in 1..Len(HexUpper) : HexUpper[i] = b) - 1
  ELSE -1

\* a | b on bytes
RECURSIVE BitOr(_, _)
BitOr(a, b) ==
  IF a = 0 THEN b
  ELSE IF b = 0 THEN a
  ELSE (IF a % 2 = 1 \/ b % 2 = 1 THEN 1 ELSE 0) + 2 * BitOr(a \div 2, b \div 2)

\* The shift left out: the nibble stays in the low half of the byte
ShiftLeftNone(c, n) == c

\* byte(c) << n
ShiftLeft(c, n) == (c * (2 ^ n)) % 256

\* The loop of getNodeGUID over data from position i on, j nibbles packed
RECURSIVE PackNibbles(_, _, _, _)
PackNibbles(data, i, j, nodeGUID) ==
  IF i > Len(data)
    THEN [st |-> "ok", guid |-> nodeGUID, err |-> NilErr]
  ELSE IF data[i] = ":"
    THEN PackNibbles(data, i + 1, j, nodeGUID)
  ELSE IF ParseHexDigit(data[i]) < 0
    THEN [st |-> "err", guid |-> <<>>, err |-> "invalid syntax"]
  ELSE IF j % 2 = 0
    THEN PackNibbles(data, i + 1, j + 1,
           Append(nodeGUID, ShiftLeft(ParseHexDigit(data[i]), nibbleBitSize)))
  ELSE PackNibbles(data, i + 1, j + 1,
         [nodeGUID EXCEPT ![(j \div 2) + 1] = BitOr(@, ParseHexDigit(data[i]))])

\* st = "ok" (guid, nil), "err" (nil, err) or "panic" (the slice
\* data[:len(data)-1] of an empty file is out of range)
getNodeGUID(f, rdmaDeviceName) ==
  LET file == NodeGuidFileOf(f, rdmaDeviceName) IN
  IF file.st \in OpenErrs THEN [st |-> "err", guid |-> <<>>, err |-> file.st]
  ELSE IF file.st # "ok" THEN [st |-> "err", guid |-> <<>>, err |-> file.st]
  ELSE IF Len(file.data) = 0 THEN [st |-> "panic", guid |-> <<>>, err |-> "panic"]
  ELSE PackNibbles(SubSeq(file.data, 1, Len(file.data) - 1), 1, 0, <<>>)

-----------------------------------------------------------------------------
(* Network interfaces.                                                     *)

\* isNetdevForRdma comparing the raw content, newline and all
isNetdevForRdmaNoTrim(f, rdmaDeviceName, port, index, netdevName) ==
  LET file == NdevFileOf(f, rdmaDeviceName, port, index) IN
  file.st = "ok" /\ file.data = netdevName

isNetdevForRdma(f, rdmaDeviceName, port, index, netdevName) ==
  LET file == NdevFileOf(f, rdmaDeviceName, port, index) IN
  IF file.st \in OpenErrs THEN FALSE
  ELSE IF file.st # "ok" THEN FALSE
  ELSE TrimSuffixNL(file.data) = netdevName

\* netlink.LinkByName(name) and handle.Attrs(): lk[name] is
\* [err, EncapType, HardwareAddr]
LinkByName(lk, netdevName) ==
  IF netdevName \in DOMAIN lk
    THEN lk[netdevName]
    ELSE [err |-> "Link not found", EncapType |-> "", HardwareAddr |-> <<>>]

\* bytes.Equal(a, b)
BytesEqual(a, b) == a = b

\* IsRDmaDeviceForNetdevice looking at nothing: a device for every name
IsRDmaAlways(rdma) == TRUE

\* rdma != "" of IsRDmaDeviceForNetdevice
IsRDmaDeviceForNetdevice(rdma) == rdma # <<>>

-----------------------------------------------------------------------------
(* The calls.  pc is "idle" before a call, "done" after its return and     *)
(* "panicked" after a run-time panic; call holds the arguments, loc the    *)
(* locals of the running scan, ret what was returned, and trace the        *)
(* filesystem accesses made so far.                                        *)

NoCall == [op |-> "", name |-> <<>>, port |-> <<>>, addr |-> <<>>]
NoLoc == [devices |-> <<>>, di |-> 0, ports |-> <<>>, pi |-> 0,
          indices |-> <<>>, ii |-> 0, lleui64 |-> <<>>]
NoRet == [name |-> <<>>, err |-> NilErr, list |-> <<>>, is |-> FALSE,
          guid |-> <<>>]

Access(sys, obj, dev, port, index) ==
  [sys |-> sys, obj |-> obj, dev |-> dev, port |-> port, index |-> index]

Log(a) == trace' = Append(trace, a)

\* return name, err from the resolution that is running
Return(name, err) ==
  /\ ret' = [ret EXCEPT !.name = name, !.err = err]
  /\ pc' = IF call.op = "IsRDmaDeviceForNetdevice" THEN "is_ret" ELSE "done"

Panic ==
  /\ ret' = [ret EXCEPT !.err = "panic"]
  /\ pc' = "panicked"

ErrNotFound == "rdma device not found for netdev"
ErrUnknownType == "unknown device type"

\* What getRdmaDeviceForEth returns after the scan found nothing
EthNotFound(netdevName) == [name |-> <<>>, err |-> ErrNotFound]

\* What getRdmaDeviceForIb returns after the scan found nothing
IbNotFound == [name |-> <<>>, err |-> NilErr]

\* The last 8 bytes of the address, whatever its length
HardwareEUILast8(addr) == SubSeq(addr, Len(addr) - 7, Len(addr))

\* linkAttr.HardwareAddr[12:]
HardwareEUI(addr) == SubSeq(addr, 13, Len(addr))

\* getRdmaDeviceForEth: devices := GetRdmaDeviceList()
EthListDevices ==
  /\ pc = "eth_list"
  /\ loc' = [loc EXCEPT !.devices = GetRdmaDeviceList(fs), !.di = 1]
  /\ pc' = "eth_dev"
  /\ Log(Access("readdir", "class", <<>>, <<>>, <<>>))
  /\ UNCHANGED <<fs, links, call, ret>>

\* getRdmaDeviceForEth: the next device, ports := GetPorts(dev)
EthNextDevice ==
  /\ pc = "eth_dev"
  /\ IF loc.di > Len(loc.devices)
       THEN /\ Return(EthNotFound(call.name).name, EthNotFound(call.name).err)
            /\ UNCHANGED <<loc, trace>>
       ELSE /\ loc' = [loc EXCEPT !.ports = GetPorts(fs, loc.devices[loc.di]),
                                  !.pi = 1]
            /\ pc' = "eth_port"
            /\ Log(Access("readdir", "ports", loc.devices[loc.di], <<>>, <<>>))
            /\ UNCHANGED ret
  /\ UNCHANGED <<fs, links, call>>

\* getRdmaDeviceForEth: the next port, indices := getNetdeviceIds(dev, port)
EthNextPort ==
  /\ pc = "eth_port"
  /\ IF loc.pi > Len(loc.ports)
       THEN /\ loc' = [loc EXCEPT !.di = @ + 1]
            /\ pc' = "eth_dev"
            /\ UNCHANGED trace
       ELSE /\ loc' = [loc EXCEPT
                 !.indices = getNetdeviceIds(fs, loc.devices[loc.di],
                                             loc.ports[loc.pi]),
                 !.ii = 1]
            /\ pc' = "eth_index"
            /\ Log(Access("readdir", "ndevs", loc.devices[loc.di],
                          loc.ports[loc.pi], <<>>))
  /\ UNCHANGED <<fs, links, call, ret>>

\* getRdmaDeviceForEth: the next index, found := isNetdevForRdma(...)
EthNextIndex ==
  /\ pc = "eth_index"
  /\ IF loc.ii > Len(loc.indices)
       THEN /\ loc' = [loc EXCEPT !.pi = @ + 1]
            /\ pc' = "eth_port"
            /\ UNCHANGED <<ret, trace>>
       ELSE /\ Log(Access("read", "ndev", loc.devices[loc.di],
                          loc.ports[loc.pi], loc.indices[loc.ii]))
            /\ IF isNetdevForRdma(fs, loc.devices[loc.di], loc.ports[loc.pi],
                                  loc.indices[loc.ii], call.name)
                 THEN /\ Return(loc.devices[loc.di], NilErr)
                      /\ UNCHANGED loc
                 ELSE /\ loc' = [loc EXCEPT !.ii = @ + 1]
                      /\ UNCHANGED <<pc, ret>>
  /\ UNCHANGED <<fs, links, call>>

\* getRdmaDeviceForIb: devices := GetRdmaDeviceList()
IbListDevices ==
  /\ pc = "ib_list"
  /\ loc' = [loc EXCEPT !.devices = GetRdmaDeviceList(fs), !.di = 1]
  /\ pc' = "ib_dev"
  /\ Log(Access("readdir", "class", <<>>, <<>>, <<>>))
  /\ UNCHANGED <<fs, links, call, ret>>

\* IbDecide going on to the next device after a failed getNodeGUID
IbDecideSkipErrors(lleui64, g) ==
  IF g.st = "panic" THEN "panic"
  ELSE IF g.err # NilErr THEN "next"
  ELSE IF BytesEqual(lleui64, g.guid) THEN "return"
  ELSE "next"

\* What one turn of the loop of getRdmaDeviceForIb decides, given what
\* getNodeGUID(dev) answered: "return", "error", "panic" or "next"
IbDecide(lleui64, g) ==
  IF g.st = "panic" THEN "panic"
  ELSE IF g.err # NilErr THEN "error"
  ELSE IF BytesEqual(lleui64, g.guid) THEN "return"
  ELSE "next"

\* getRdmaDeviceForIb: the next device, nodeGUID, err := getNodeGUID(dev)
IbNextDevice ==
  /\ pc = "ib_dev"
  /\ IF loc.di > Len(loc.devices)
       THEN /\ Return(IbNotFound.name, IbNotFound.err)
            /\ UNCHANGED <<loc, trace>>
       ELSE LET dev == loc.devices[loc.di]
                g == getNodeGUID(fs, dev)
                d == IbDecide(loc.lleui64, g)
            IN  /\ Log(Access("read", "node_guid", dev, <<>>, <<>>))
                /\ CASE d = "panic" -> Panic /\ UNCHANGED loc
                     [] d = "error" -> Return(<<>>, g.err) /\ UNCHANGED loc
                     [] d = "return" -> Return(dev, NilErr) /\ UNCHANGED loc
                     [] OTHER -> /\ loc' = [loc EXCEPT !.di = @ + 1]
                                 /\ UNCHANGED <<pc, ret>>
  /\ UNCHANGED <<fs, links, call>>

\* Entering getRdmaDeviceForEth(netdevName)
EnterEth(op, netdevName) ==
  /\ call' = [NoCall EXCEPT !.op = op, !.name = netdevName]
  /\ pc' = "eth_list"
  /\ UNCHANGED <<loc, ret>>

\* Entering getRdmaDeviceForIb(linkAttr): lleui64 := HardwareAddr[12:]
EnterIb(op, netdevName, addr) ==
  /\ call' = [NoCall EXCEPT !.op = op, !.name = netdevName, !.addr = addr]
  /\ IF Len(addr) < 12
       THEN Panic /\ UNCHANGED loc
       ELSE /\ loc' = [loc EXCEPT !.lleui64 = HardwareEUI(addr)]
            /\ pc' = "ib_list"
            /\ UNCHANGED ret

\* EncapRoute with the final else dropped: whatever is not InfiniBand is
\* scanned as Ethernet
EncapRouteNoElse(netAttr) ==
  IF netAttr.err # NilErr THEN "fail"
  ELSE IF netAttr.EncapType = "infiniband" THEN "ib"
  ELSE "eth"

\* The branch GetRdmaDeviceForNetdevice takes on what LinkByName answered
EncapRoute(netAttr) ==
  IF netAttr.err # NilErr THEN "fail"
  ELSE IF netAttr.EncapType = "ether" THEN "eth"
  ELSE IF netAttr.EncapType = "infiniband" THEN "ib"
  ELSE "unknown"

\* return "", err from GetRdmaDeviceForNetdevice itself
DispatchFail(op, netdevName, err) ==
  /\ call' = [NoCall EXCEPT !.op = op, !.name = netdevName]
  /\ ret' = [ret EXCEPT !.name = <<>>, !.err = err]
  /\ pc' = IF op = "IsRDmaDeviceForNetdevice" THEN "is_ret" ELSE "done"
  /\ UNCHANGED loc

\* The body of GetRdmaDeviceForNetdevice(netdevName), called as op
Dispatch(op, netdevName) ==
  LET netAttr == LinkByName(links, netdevName)
      route == EncapRoute(netAttr)
  IN  /\ Log(Access("netlink", "link", <<>>, <<>>, <<>>))
      /\ CASE route = "fail" -> DispatchFail(op, netdevName, netAttr.err)
           [] route = "eth" -> EnterEth(op, netdevName)
           [] route = "ib" -> EnterIb(op, netdevName, netAttr.HardwareAddr)
           [] OTHER -> DispatchFail(op, netdevName, ErrUnknownType)

CallGetRdmaDeviceForEth(netdevName) ==
  /\ pc = "idle"
  /\ EnterEth("getRdmaDeviceForEth", netdevName)
  /\ UNCHANGED <<fs, links, trace>>

CallGetRdmaDeviceForIb(addr) ==
  /\ pc = "idle"
  /\ EnterIb("getRdmaDeviceForIb", <<>>, addr)
  /\ UNCHANGED <<fs, links, trace>>

CallGetRdmaDeviceForNetdevice(netdevName) ==
  /\ pc = "idle"
  /\ Dispatch("GetRdmaDeviceForNetdevice", netdevName)
  /\ UNCHANGED <<fs, links>>

CallIsRDmaDeviceForNetdevice(netdevName) ==
  /\ pc = "idle"
  /\ Dispatch("IsRDmaDeviceForNetdevice", netdevName)
  /\ UNCHANGED <<fs, links>>

\* IsRDmaDeviceForNetdevice: return (rdma != "")
IsRDmaReturn ==
  /\ pc = "is_ret"
  /\ ret' = [ret EXCEPT !.is = IsRDmaDeviceForNetdevice(ret.name)]
  /\ pc' = "done"
  /\ UNCHANGED <<fs, links, call, loc, trace>>

\* The calls that return without a scan of their own
Finish(op, name, port) ==
  /\ pc = "idle"
  /\ call' = [NoCall EXCEPT !.op = op, !.name = name, !.port = port]
  /\ pc' = "done"
  /\ UNCHANGED <<fs, links, loc>>

CallGetRdmaDeviceList ==
  /\ Finish("GetRdmaDeviceList", <<>>, <<>>)
  /\ ret' = [ret EXCEPT !.list = GetRdmaDeviceList(fs)]
  /\ Log(Access("readdir", "class", <<>>, <<>>, <<>>))

CallGetPorts(rdmaDeviceName) ==
  /\ Finish("GetPorts", rdmaDeviceName, <<>>)
  /\ ret' = [ret EXCEPT !.list = GetPorts(fs, rdmaDeviceName)]
  /\ Log(Access("readdir", "ports", rdmaDeviceName, <<>>, <<>>))

CallGetNetdeviceIds(rdmaDeviceName, port) ==
  /\ Finish("getNetdeviceIds", rdmaDeviceName, port)
  /\ ret' = [ret EXCEPT !.list = getNetdeviceIds(fs, rdmaDeviceName, port)]
  /\ Log(Access("readdir", "ndevs", rdmaDeviceName, port, <<>>))

CallGetRdmaDevicesForPcidev(pcidevName) ==
  /\ Finish("GetRdmaDevicesForPcidev", pcidevName, <<>>)
  /\ ret' = [ret EXCEPT !.list = GetRdmaDevicesForPcidev(fs, pcidevName)]
  /\ Log(Access("readdir", "pci", pcidevName, <<>>, <<>>))

CallGetRdmaDevicesForAuxdev(deviceID) ==
  /\ Finish("GetRdmaDevicesForAuxdev", deviceID, <<>>)
  /\ ret' = [ret EXCEPT !.list = GetRdmaDevicesForAuxdev(fs, deviceID)]
  /\ Log(Access("readdir", "aux", deviceID, <<>>, <<>>))

CallGetRdmaCharDevices(rdmaDeviceName) ==
  /\ Finish("GetRdmaCharDevices", rdmaDeviceName, <<>>)
  /\ ret' = [ret EXCEPT !.list = GetRdmaCharDevices(fs, rdmaDeviceName)]
  /\ Log(Access("readdir", "chardev", rdmaDeviceName, <<>>, <<>>))

CallGetNodeGUID(rdmaDeviceName) ==
  LET g == getNodeGUID(fs, rdmaDeviceName) IN
  /\ pc = "idle"
  /\ call' = [NoCall EXCEPT !.op = "getNodeGUID", !.name = rdmaDeviceName]
  /\ ret' = [ret EXCEPT !.guid = g.guid, !.err = g.err]
  /\ pc' = IF g.st = "panic" THEN "panicked" ELSE "done"
  /\ Log(Access("read", "node_guid", rdmaDeviceName, <<>>, <<>>))
  /\ UNCHANGED <<fs, links, loc>>

-----------------------------------------------------------------------------
(* The environment of the list-then-read race: another process removes an  *)
(* entry of the tree between two steps of a scan.                          *)

DropEntry(d, name) ==
  [d EXCEPT !.entries = SelectSeq(@, LAMBDA e : e.name # name)]

RemoveDevice(dev) ==
  /\ HasEntry(fs.classdir, dev)
  /\ fs' = [fs EXCEPT !.classdir = DropEntry(@, dev)]
  /\ UNCHANGED <<links, pc, call, loc, ret, trace>>

RemoveNodeGuid(dev) ==
  /\ NodeGuidFileOf(fs, dev).st = "ok"
  /\ fs' = [fs EXCEPT !.classdir.entries =
              [i \in DOMAIN @ |->
                 IF @[i].name = dev THEN [@[i] EXCEPT !.guid = NoFile] ELSE @[i]]]
  /\ UNCHANGED <<links, pc, call, loc, ret, trace>>

RemovePort(dev, port) ==
  /\ HasEntry(PortsDirOf(fs, dev), port)
  /\ fs' = [fs EXCEPT !.classdir.entries =
              [i \in DOMAIN @ |->
                 IF @[i].name = dev
                   THEN [@[i] EXCEPT !.ports = DropEntry(@, port)]
                   ELSE @[i]]]
  /\ UNCHANGED <<links, pc, call, loc, ret, trace>>

RemoveNdev(dev, port, index) ==
  /\ HasEntry(NdevsDirOf(fs, dev, port), index)
  /\ fs' = [fs EXCEPT !.classdir.entries =
              [i \in DOMAIN @ |->
                 IF @[i].name = dev
                   THEN [@[i] EXCEPT !.ports.entries =
                           [k \in DOMAIN @ |->
                              IF @[k].name = port
                                THEN [@[k] EXCEPT !.ndevs = DropEntry(@, index)]
                                ELSE @[k]]]
                   ELSE @[i]]]
  /\ UNCHANGED <<links, pc, call, loc, ret, trace>>

-----------------------------------------------------------------------------
(* The names, file contents and addresses the model draws from.            *)

eth0 == <<"e", "t", "h", "0">>
eth1 == <<"e", "t", "h", "1">>
ib0 == <<"i", "b", "0">>
ib1 == <<"i", "b", "1">>
lo == <<"l", "o">>
nosuch == <<"n", "o", "s", "u", "c", "h">>
NetdevNames == {eth0, eth1, ib0, ib1, lo, nosuch}

DevName(i) == <<"m", "l", "x", "5", "_", Digits[i]>>
DevNames == {DevName(i) : i \in 1..MaxDevs}
PortName(i) == <<Digits[i + 1]>>
PortNames == {PortName(i) : i \in 1..MaxPorts}
IdxName(i) == <<Digits[i]>>
IdxNames == {IdxName(i) : i \in 1..MaxIdx}

\* node_guid contents: "0002:c903:0033:1a84\n", "AA:BB:CC:DD:EE:FF:00:11\n",
\* one of 4 bytes, one of 9 bytes, one with a letter that is no hex digit
G1Text == <<"0", "0", "0", "2", ":", "c", "9", "0", "3", ":",
            "0", "0", "3", "3", ":", "1", "a", "8", "4", NL>>
G1Bytes == <<0, 2, 201, 3, 0, 51, 26, 132>>
G2Text == <<"A", "A", ":", "B", "B", ":", "C", "C", ":", "D", "D", ":",
            "E", "E", ":", "F", "F", ":", "0", "0", ":", "1", "1", NL>>
G2Bytes == <<170, 187, 204, 221, 238, 255, 0, 17>>
ShortText == <<"0", "0", "0", "2", ":", "c", "9", "0", "3", NL>>
LongText == <<"f", "e", ":">> \o G2Text
BadText == <<"0", "0", "0", "2", ":", "c", "9", "0", "3", ":",
             "0", "0", "3", "3", ":", "1", "g", "8", "4", NL>>

\* A hardware address of n bytes that ends with the bytes eui
Pad(n) == [i \in 1..n |-> 254]
HwAddr(n, eui) == Pad(n - Len(eui)) \o eui
AddrLens == {8, 12, 20, 21}
HwAddrs == {HwAddr(n, eui) : n \in AddrLens, eui \in {G1Bytes, G2Bytes}}

\* The sequences without repetition of at most n elements of S
InjSeqs(S, n) ==
  UNION {{q \in [1..k -> S] : \A i, j \in 1..k : i # j => q[i] # q[j]} :
         k \in 0..n}

DevEntry(name, o) ==
  [name |-> name, kind |-> o.kind, ports |-> o.ports, guid |-> o.guid]

\* The class roots listing at most MaxDevs devices, each shaped by opts
ClassDirsOver(opts) ==
  UNION {{Dir([i \in 1..Len(q) |-> DevEntry(q[i], c[i])]) :
            c \in [1..Len(q) -> opts]} : q \in InjSeqs(DevNames, MaxDevs)}

\* ports/1/gid_attrs/ndevs/0 holding file
OnePort(file) ==
  Dir(<<[name |-> PortName(1),
         ndevs |-> Dir(<<[name |-> IdxName(1), file |-> file]>>)]>>)

\* The ndevs directories of at most MaxIdx indices
NdevsDirs ==
  {NoDir} \cup
  UNION {{Dir([i \in 1..k |-> [name |-> IdxName(i), file |-> c[i]]]) :
            c \in [1..k -> {File(eth0 \o <<NL>>), File(eth1 \o <<NL>>)}]} :
         k \in 0..MaxIdx}

\* The ports directories of at most MaxPorts ports
PortsDirs ==
  {NoDir} \cup
  UNION {{Dir([i \in 1..k |-> [name |-> PortName(i), ndevs |-> c[i]]]) :
            c \in [1..k -> NdevsDirs]} : k \in 0..MaxPorts}

BaseFs ==
  [classdir |-> NoDir, cm |-> NoDir, mad |-> NoDir, verbs |-> NoDir,
   rdmaCm |-> "ENOENT", pci |-> [k \in {} |-> NoDir], aux |-> [k \in {} |-> NoDir]]

ether(addr) == [err |-> NilErr, EncapType |-> "ether", HardwareAddr |-> addr]
infiniband(addr) ==
  [err |-> NilErr, EncapType |-> "infiniband", HardwareAddr |-> addr]
otherEncap(kind) ==
  [err |-> NilErr, EncapType |-> kind, HardwareAddr |-> <<>>]
noLink(err) == [err |-> err, EncapType |-> "", HardwareAddr |-> <<>>]
Mac == <<2, 0, 0, 0, 0, 1>>

LinkTables ==
  { (eth0 :> ether(Mac)) @@ (eth1 :> ether(Mac))
      @@ (ib0 :> infiniband(HwAddr(20, G1Bytes)))
      @@ (ib1 :> infiniband(HwAddr(20, G2Bytes)))
      @@ (lo :> otherEncap("loopback")),
    (eth0 :> infiniband(HwAddr(20, G2Bytes))) @@ (eth1 :> otherEncap("none"))
      @@ (ib0 :> ether(Mac)) @@ (ib1 :> infiniband(Mac))
      @@ (lo :> noLink("operation not permitted")) }

-----------------------------------------------------------------------------
(* The exported operations on a quiescent filesystem.                      *)

mlx5_0 == DevName(1)
ucm0 == <<"u", "c", "m", "0">>
ucm1 == <<"u", "c", "m", "1">>
umad0 == <<"u", "m", "a", "d", "0">>
issm0 == <<"i", "s", "s", "m", "0">>
uverbs0 == <<"u", "v", "e", "r", "b", "s", "0">>
pci0 == <<"0", "0", "0", "0", ":", "0", "5", ":", "0", "0", ".", "0">>
aux0 == <<"m", "l", "x", "5", "_", "c", "o", "r", "e", ".", "s", "f", ".", "4">>
BusKeys == {pci0, aux0}

CharEntry(name, ibdev) == [name |-> name, ibdev |-> ibdev]
BusEntry(name, kind) == [name |-> name, kind |-> kind]

\* A tree with the character devices and the bus directory of mlx5_0
TypicalFs ==
  [BaseFs EXCEPT
     !.cm = Dir(<<CharEntry(ucm0, File(mlx5_0 \o <<NL>>))>>),
     !.mad = Dir(<<CharEntry(umad0, File(mlx5_0 \o <<NL>>)),
                   CharEntry(issm0, File(mlx5_0 \o <<NL>>))>>),
     !.verbs = Dir(<<CharEntry(uverbs0, File(mlx5_0 \o <<NL>>))>>),
     !.rdmaCm = "ok",
     !.pci = (pci0 :> Dir(<<BusEntry(mlx5_0, "dir")>>)),
     !.aux = (aux0 :> Dir(<<BusEntry(mlx5_0, "dir"), BusEntry(ucm0, "file")>>))]

Shape(kind, ports, guid) == [kind |-> kind, ports |-> ports, guid |-> guid]

NetShapes ==
  { Shape("link", OnePort(File(eth0 \o <<NL>>)), File(G1Text)),
    Shape("link", OnePort(File(eth1 \o <<NL>>)), File(G2Text)),
    Shape("link", NoDir, File(BadText)),
    Shape("link", Dir(<<>>), NoFile),
    Shape("file", NoDir, NoFile) }

StartIdle ==
  /\ pc = "idle"
  /\ call = NoCall
  /\ loc = NoLoc
  /\ ret = NoRet
  /\ trace = <<>>

Init ==
  /\ fs \in {[TypicalFs EXCEPT !.classdir = c] :
               c \in ClassDirsOver(NetShapes) \cup {NoDir}}
  /\ links \in LinkTables
  /\ StartIdle

Scan ==
  \/ EthListDevices
  \/ EthNextDevice
  \/ EthNextPort
  \/ EthNextIndex
  \/ IbListDevices
  \/ IbNextDevice

Next ==
  \/ \E n \in NetdevNames : CallGetRdmaDeviceForNetdevice(n)
  \/ \E n \in NetdevNames : CallIsRDmaDeviceForNetdevice(n)
  \/ IsRDmaReturn
  \/ Scan
  \/ CallGetRdmaDeviceList
  \/ \E d \in DevNames : CallGetPorts(d)
  \/ \E d \in DevNames : CallGetRdmaCharDevices(d)
  \/ \E k \in BusKeys : CallGetRdmaDevicesForPcidev(k)
  \/ \E k \in BusKeys : CallGetRdmaDevicesForAuxdev(k)

Spec == Init /\ [][Next]_vars

-----------------------------------------------------------------------------
(* What the claims speak of, read off the tree itself.                     *)

\* The accesses of the trace that go to the filesystem
FsAccesses == SelectSeq(trace, LAMBDA a : a.sys # "netlink")

\* file holds the interface name n, with or without one trailing newline
HoldsName(file, n) ==
  /\ file.st = "ok"
  /\ \/ file.data = n \o <<NL>>
     \/ file.data = n /\ (n = <<>> \/ n[Len(n)] # NL)

\* The entries of the class root that GetRdmaDeviceList is to return
Listed(f) ==
  IF f.classdir.st = "ok"
    THEN {e \in Range(f.classdir.entries) : e.kind # "dir"}
    ELSE {}

\* e has a port with an ndevs index that holds n
Attached(e, n) ==
  /\ e.kind = "link"
  /\ e.ports.st = "ok"
  /\ \E p \in Range(e.ports.entries) :
       /\ p.ndevs.st = "ok"
       /\ \E x \in Range(p.ndevs.entries) : HoldsName(x.file, n)

\* The listed devices to which interface n is attached
EthOwners(f, n) == {e.name : e \in {x \in Listed(f) : Attached(x, n)}}

Returned == pc \in {"is_ret", "done"}
EthPcs == {"eth_list", "eth_dev", "eth_port", "eth_index"}
IbPcs == {"ib_list", "ib_dev"}
DispatchCalls == {"GetRdmaDeviceForNetdevice", "IsRDmaDeviceForNetdevice"}

-----------------------------------------------------------------------------
(* C3: GetRdmaDeviceForNetdevice dispatches on the encapsulation kind of   *)
(* the interface: "ether" runs the Ethernet scan and "infiniband" the      *)
(* InfiniBand scan; any other kind returns the unknown-device-type error   *)
(* with an empty name and a failed lookup returns the lookup's error       *)
(* unchanged, both without a single directory listing or file read.        *)
C3_Dispatch ==
  call.op \in DispatchCalls =>
    LET a == LinkByName(links, call.name) IN
    /\ a.err # NilErr =>
         /\ Returned
         /\ ret.name = <<>> /\ ret.err = a.err
         /\ FsAccesses = <<>>
    /\ (a.err = NilErr /\ a.EncapType \notin {"ether", "infiniband"}) =>
         /\ Returned
         /\ ret.name = <<>> /\ ret.err = ErrUnknownType
         /\ FsAccesses = <<>>
    /\ (a.err = NilErr /\ a.EncapType = "ether") =>
         /\ pc \in EthPcs \cup {"is_ret", "done"}
         /\ \A i \in 1..Len(FsAccesses) :
              FsAccesses[i].obj \in {"class", "ports", "ndevs", "ndev"}
         /\ Returned =>
              /\ FsAccesses # <<>>
              /\ ret.err \in {NilErr, ErrNotFound}
              /\ ret.err = NilErr <=> EthOwners(fs, call.name) # {}
    /\ (a.err = NilErr /\ a.EncapType = "infiniband") =>
         /\ pc \in IbPcs \cup {"is_ret", "done", "panicked"}
         /\ \A i \in 1..Len(FsAccesses) :
              FsAccesses[i].obj \in {"class", "node_guid"}
         /\ Returned =>
              /\ FsAccesses # <<>>
              /\ ret.err \notin {ErrNotFound, ErrUnknownType}

\* A loopback interface was refused after the netlink lookup alone
C3_Witness ==
  /\ pc = "done"
  /\ call.op = "GetRdmaDeviceForNetdevice"
  /\ LinkByName(links, call.name).EncapType = "loopback"
  /\ ret.err = ErrUnknownType
  /\ Len(trace) = 1
  /\ Listed(fs) # {}

-----------------------------------------------------------------------------
(* C7: IsRDmaDeviceForNetdevice(N) is true exactly when                    *)
(* GetRdmaDeviceForNetdevice(N) returned no error and a non-empty device   *)
(* name: every error outcome and the empty-without-error outcome of the    *)
(* InfiniBand scan give false.                                             *)
C7_IsRdma ==
  (pc = "done" /\ call.op = "IsRDmaDeviceForNetdevice") =>
    /\ ret.is <=> (ret.err = NilErr /\ ret.name # <<>>)
    /\ ret.err # NilErr => ~ret.is
    /\ ret.is => ret.name \in {e.name : e \in Listed(fs)}

\* The predicate answered false on an error of the Ethernet scan
C7_Witness ==
  /\ pc = "done"
  /\ call.op = "IsRDmaDeviceForNetdevice"
  /\ ret.err = ErrNotFound
  /\ ~ret.is
  /\ Listed(fs) # {}

-----------------------------------------------------------------------------
(* getRdmaDeviceForEth on a quiescent filesystem.                          *)

EthShapes ==
  {Shape("link", OnePort(file), NoFile) :
     file \in {File(eth0 \o <<NL>>), File(eth1 \o <<NL>>), File(eth0),
               File(eth0 \o <<NL, NL>>), BadFile("EACCES")}}
  \cup {Shape("link", NotDir, NoFile),
        Shape("dir", OnePort(File(eth0 \o <<NL>>)), NoFile),
        Shape("file", NoDir, NoFile)}

EthClassDirs ==
  {NoDir, NotDir}
  \cup ClassDirsOver(EthShapes)
  \cup {Dir(<<DevEntry(DevName(1), Shape("link", p, NoFile))>>) : p \in PortsDirs}

EthTargets == {eth0, eth1, eth0 \o <<NL>>}

InitEth ==
  /\ fs \in {[BaseFs EXCEPT !.classdir = c] : c \in EthClassDirs}
  /\ links \in {[n \in {} |-> noLink("")]}
  /\ StartIdle

NextEth ==
  \/ \E n \in EthTargets : CallGetRdmaDeviceForEth(n)
  \/ EthListDevices
  \/ EthNextDevice
  \/ EthNextPort
  \/ EthNextIndex

SpecEth == InitEth /\ [][NextEth]_vars

(* C1: getRdmaDeviceForEth(N) returns a device without error exactly when  *)
(* some listed device has a port and an ndevs index whose file content,    *)
(* less its trailing newline, is N, and the device returned is such a      *)
(* device; with no such device it returns the not-found error and the      *)
(* empty name, never an empty success.  When the interface is attached to  *)
(* one device only, that device is the one returned.                       *)
C1_EthResolve ==
  (pc = "done" /\ call.op = "getRdmaDeviceForEth") =>
    LET owners == EthOwners(fs, call.name) IN
    /\ ret.err = NilErr <=> owners # {}
    /\ ret.err = NilErr => ret.name \in owners
    /\ ret.err # NilErr => (ret.name = <<>> /\ ret.err = ErrNotFound)
    /\ ~(ret.err = NilErr /\ ret.name = <<>>)
    /\ \A d \in DevNames : owners = {d} => (ret.name = d /\ ret.err = NilErr)

\* Two listed devices with disjoint interfaces; the second one owns N
C1_Witness ==
  /\ pc = "done"
  /\ call.op = "getRdmaDeviceForEth"
  /\ Len(loc.devices) = 2
  /\ ret.err = NilErr
  /\ ret.name = loc.devices[2]
  /\ EthOwners(fs, call.name) = {loc.devices[2]}
  /\ \E m \in EthTargets : EthOwners(fs, m) = {loc.devices[1]}

-----------------------------------------------------------------------------
(* getRdmaDeviceForIb on a quiescent filesystem.                           *)

IbShapes ==
  {Shape("link", NoDir, guid) :
     guid \in {File(G1Text), File(G2Text), File(ShortText), File(LongText),
               File(BadText), File(<<>>), NoFile}}
  \cup {Shape("dir", NoDir, File(G1Text)), Shape("file", NoDir, NoFile)}

InitIb ==
  /\ fs \in {[BaseFs EXCEPT !.classdir = c] :
               c \in {NoDir} \cup ClassDirsOver(IbShapes)}
  /\ links \in {[n \in {} |-> noLink("")]}
  /\ StartIdle

NextIb ==
  \/ \E a \in HwAddrs : CallGetRdmaDeviceForIb(a)
  \/ IbListDevices
  \/ IbNextDevice

SpecIb == InitIb /\ [][NextIb]_vars

\* The bytes each well-formed node_guid content of the model stands for
KnownGuid ==
  (G1Text :> G1Bytes) @@ (G2Text :> G2Bytes) @@ (ShortText :> <<0, 2, 201, 3>>)
    @@ (LongText :> <<254>> \o G2Bytes)

\* The listed entries of the class root, in listing order
ListedSeq(f) ==
  IF f.classdir.st = "ok"
    THEN SelectSeq(f.classdir.entries, LAMBDA e : e.kind # "dir")
    ELSE <<>>

\* The node_guid of entry e parses
GuidParses(e) ==
  e.kind = "link" /\ e.guid.st = "ok" /\ e.guid.data \in DOMAIN KnownGuid

\* The node_guid of entry e parses to the bytes target
GuidIs(e, target) == GuidParses(e) /\ KnownGuid[e.guid.data] = target

\* The node_guid of entry e cannot be opened, read or parsed
GuidFails(e) ==
  e.kind # "link" \/ e.guid.st # "ok" \/ e.guid.data = BadText

GuidError(e) ==
  IF e.kind # "link" THEN "ENOENT"
  ELSE IF e.guid.st # "ok" THEN e.guid.st
  ELSE "invalid syntax"

\* The devices whose node_guid the scan has read, in the order of the reads
GuidReads ==
  LET r == SelectSeq(trace, LAMBDA a : a.obj = "node_guid")
  IN  [i \in 1..Len(r) |-> r[i].dev]

\* The result the claim names for the bytes target: the first listed device
\* whose identifier is target, or the empty name, without error
FirstWithGuid(f, target) ==
  LET devs == ListedSeq(f)
      hits == {i \in 1..Len(devs) : GuidIs(devs[i], target)}
  IN  IF hits = {}
        THEN <<>>
        ELSE devs[CHOOSE i \in hits : \A k \in hits : i <= k].name

IbDone == pc = "done" /\ call.op = "getRdmaDeviceForIb"

AllGuidsParse == \A i \in 1..Len(ListedSeq(fs)) : GuidParses(ListedSeq(fs)[i])

(* C2, as claimed: when every node_guid parses, getRdmaDeviceForIb(A)      *)
(* returns the first listed device whose identifier equals the last 8      *)
(* bytes of A, whatever the length of A, and the empty name without error  *)
(* when there is none.                                                     *)
C2_Trailing8 ==
  (IbDone /\ AllGuidsParse) =>
    /\ ret.err = NilErr
    /\ ret.name = FirstWithGuid(fs, SubSeq(call.addr, Len(call.addr) - 7,
                                           Len(call.addr)))

(* C2, amended: for an address A of at least 12 bytes, when every          *)
(* node_guid parses, getRdmaDeviceForIb(A) returns the first listed device *)
(* whose identifier equals the bytes of A from offset 12 to its end (the   *)
(* last 8 bytes when A has 20 bytes), and the empty name without error     *)
(* when there is none.                                                     *)
C2_FromOffset12 ==
  (IbDone /\ AllGuidsParse) =>
    /\ Len(call.addr) >= 12
    /\ ret.err = NilErr
    /\ ret.name = FirstWithGuid(fs, [i \in 1..(Len(call.addr) - 12) |->
                                       call.addr[i + 12]])
    /\ Len(call.addr) = 20 =>
         ret.name = FirstWithGuid(fs, SubSeq(call.addr, Len(call.addr) - 7,
                                             Len(call.addr)))

\* A 20-byte address resolved to the second of two devices
C2_Witness ==
  /\ IbDone /\ AllGuidsParse
  /\ Len(call.addr) = 20
  /\ Len(ListedSeq(fs)) = 2
  /\ ret.name = ListedSeq(fs)[2].name
  /\ ret.err = NilErr

(* C10: getRdmaDeviceForIb examines the devices in listing order; the      *)
(* first device whose node_guid cannot be read or parsed ends the scan     *)
(* with that error and the empty name, later devices are not read even if  *)
(* one of them matches, and a matching device listed before the failing    *)
(* one is returned.                                                        *)
C10_IbAbort ==
  IbDone =>
    LET devs == ListedSeq(fs)
        target == loc.lleui64
        Passed(i) == \A j \in 1..(i - 1) :
                       GuidParses(devs[j]) /\ ~GuidIs(devs[j], target)
    IN  \A i \in 1..Len(devs) :
          /\ (Passed(i) /\ GuidFails(devs[i])) =>
               /\ ret.name = <<>>
               /\ ret.err = GuidError(devs[i])
               /\ GuidReads = [k \in 1..i |-> devs[k].name]
          /\ (Passed(i) /\ GuidIs(devs[i], target)) =>
               /\ ret.name = devs[i].name
               /\ ret.err = NilErr
               /\ GuidReads = [k \in 1..i |-> devs[k].name]

\* The first device failed to parse and the second, which matches, was never read
C10_Witness ==
  /\ IbDone
  /\ Len(ListedSeq(fs)) = 2
  /\ ListedSeq(fs)[1].guid.data = BadText
  /\ GuidIs(ListedSeq(fs)[2], loc.lleui64)
  /\ ret.err = "invalid syntax" /\ ret.name = <<>>
  /\ GuidReads = <<ListedSeq(fs)[1].name>>

-----------------------------------------------------------------------------
(* getNodeGUID on node_guid files of many contents.                        *)

\* The hex digit of value v at position i, written in style
HexChar(v, i, style) ==
  IF style = "lower" \/ (style = "mixed" /\ i % 2 = 0)
    THEN HexLower[v + 1]
    ELSE HexUpper[v + 1]

\* 2 * GuidLen hex digits, the i-th of value (r + i) % 16, with a colon
\* after every g digits
RECURSIVE GuidChars(_, _, _, _)
GuidChars(r, style, g, i) ==
  IF i > 2 * GuidLen THEN <<>>
  ELSE <<HexChar((r + i) % 16, i, style)>>
         \o (IF i % g = 0 /\ i < 2 * GuidLen THEN <<":">> ELSE <<>>)
         \o GuidChars(r, style, g, i + 1)

WellFormedGuids ==
  {GuidChars(r, style, g, 1) :
     r \in 0..15, style \in {"lower", "upper", "mixed"}, g \in {2, 4}}

\* Contents that are no well-formed identifier followed by a newline
MalformedGuids ==
  LET base == GuidChars(0, "lower", 2, 1) \o <<NL>> IN
  {[base EXCEPT ![i] = c] : i \in 1..(Len(base) - 1), c \in {"g", "-"}}
  \cup {SubSeq(base, 1, k) \o <<NL>> : k \in 0..(Len(base) - 2)}
  \cup {SubSeq(base, 1, k) : k \in 0..(Len(base) - 1)}
  \cup {<<"0", "1", ":">> \o base, SubSeq(base, 1, Len(base) - 1) \o <<"2", NL>>}
  \cup {ShortText, LongText, BadText}

InitGuid ==
  /\ fs \in {[BaseFs EXCEPT !.classdir =
                Dir(<<DevEntry(mlx5_0, Shape("link", NoDir, guid))>>)] :
               guid \in {File(t \o <<NL>>) : t \in WellFormedGuids}
                        \cup {File(t) : t \in MalformedGuids}
                        \cup {NoFile, BadFile("EISDIR")}}
  /\ links \in {[n \in {} |-> noLink("")]}
  /\ StartIdle

NextGuid == \E d \in DevNames : CallGetNodeGUID(d)

SpecGuid == InitGuid /\ [][NextGuid]_vars

IsHexChar(c) == c \in Range(HexLower) \cup Range(HexUpper)

\* t is 2 * GuidLen hex digits in groups of g, a colon between the groups
GroupedHex(t, g) ==
  /\ Len(t) = 2 * GuidLen + ((2 * GuidLen - 1) \div g)
  /\ \A i \in 1..Len(t) :
       IF i % (g + 1) = 0 THEN t[i] = ":" ELSE IsHexChar(t[i])

IsWellFormedGuid(t) == GroupedHex(t, 2) \/ GroupedHex(t, 4)

\* The content of the node_guid file of the device the call named
GuidContent == NodeGuidFileOf(fs, call.name).data

\* The content is a well-formed identifier followed by the newline of sysfs
WellFormedContent ==
  /\ NodeGuidFileOf(fs, call.name).st = "ok"
  /\ Len(GuidContent) > 0
  /\ GuidContent[Len(GuidContent)] = NL
  /\ IsWellFormedGuid(SubSeq(GuidContent, 1, Len(GuidContent) - 1))

ToLower(c) ==
  IF \E i \in 1..Len(HexUpper) : HexUpper[i] = c
    THEN HexLower[CHOOSE i \in 1..Len(HexUpper) : HexUpper[i] = c]
    ELSE c

\* The hex digits of t, lowercased, in order
LowerDigits(t) ==
  [i \in 1..Len(SelectSeq(t, IsHexChar)) |-> ToLower(SelectSeq(t, IsHexChar)[i])]

\* bytes written as lowercase hex, two digits per byte
EncodeHex(bytes) ==
  [i \in 1..(2 * Len(bytes)) |->
     IF i % 2 = 1 THEN HexLower[(bytes[(i + 1) \div 2] \div 16) + 1]
                  ELSE HexLower[(bytes[i \div 2] % 16) + 1]]

\* The value of the hex digit c, from its place among the digits
DigitValue(c) ==
  (CHOOSE v \in 0..15 : HexLower[v + 1] = ToLower(c))

GuidCall == call.op = "getNodeGUID" /\ pc \in {"done", "panicked"}

(* C5: for a node_guid file holding a well-formed colon-separated          *)
(* identifier S (and the newline that ends the file), getNodeGUID returns  *)
(* exactly 8 bytes without error; written back as lowercase two-digit hex  *)
(* they are the hex digits of lowercased S in order, each byte being the   *)
(* first nibble of its pair times 16 plus the second.                      *)
C5_RoundTrip ==
  (GuidCall /\ WellFormedContent) =>
    /\ pc = "done"
    /\ ret.err = NilErr
    /\ Len(ret.guid) = GuidLen
    /\ EncodeHex(ret.guid) = LowerDigits(GuidContent)
    /\ \A k \in 1..Len(ret.guid) :
         ret.guid[k] = DigitValue(SelectSeq(GuidContent, IsHexChar)[2 * k - 1]) * 16
                       + DigitValue(SelectSeq(GuidContent, IsHexChar)[2 * k])

\* An identifier in capitals, in groups of four digits, was parsed
C5_Witness ==
  /\ GuidCall /\ WellFormedContent
  /\ GroupedHex(SubSeq(GuidContent, 1, Len(GuidContent) - 1), 4)
  /\ \E i \in 1..Len(GuidContent) : GuidContent[i] = "F"
  /\ \E k \in 1..Len(ret.guid) : ret.guid[k] = 239

(* C6: getNodeGUID never returns a truncated or defaulted value: for every *)
(* node_guid content that is not a well-formed 8-byte identifier (a        *)
(* character that is no hex digit, fewer or more than 16 digits) it        *)
(* returns a parse failure and no bytes.                                   *)
C6_MalformedFails ==
  (pc = "done" /\ call.op = "getNodeGUID"
     /\ NodeGuidFileOf(fs, call.name).st = "ok" /\ ~WellFormedContent) =>
    /\ ret.err # NilErr
    /\ ret.guid = <<>>

-----------------------------------------------------------------------------
(* GetRdmaCharDevices on class directories of many shapes.                 *)

IbdevFiles ==
  {File(DevName(1) \o <<NL>>), File(DevName(2) \o <<NL>>),
   File(<<NL>> \o DevName(1) \o <<NL, NL>>), NoFile}

\* The class directories whose entries are named in names
CharDirs(names) ==
  {NoDir, NotDir} \cup
  UNION {{Dir([i \in 1..Len(q) |-> CharEntry(q[i], c[i])]) :
            c \in [1..Len(q) -> IbdevFiles]} :
         q \in InjSeqs(names, Cardinality(names))}

InitChar ==
  /\ fs \in {[BaseFs EXCEPT !.cm = c, !.mad = m, !.verbs = v, !.rdmaCm = g] :
               c \in CharDirs({ucm0, ucm1}), m \in CharDirs({umad0, issm0}),
               v \in CharDirs({uverbs0}), g \in {"ok", "ENOENT"}}
  /\ links \in {[n \in {} |-> noLink("")]}
  /\ StartIdle

NextChar == \E d \in DevNames : CallGetRdmaCharDevices(d)

SpecChar == InitChar /\ [][NextChar]_vars

\* The class directory and the name prefix of role r: ucm, issm, umad, uverbs
RoleDir(f, r) == <<f.cm, f.mad, f.mad, f.verbs>>[r]
RolePrefix(r) ==
  <<RdmaUcmFilePrefix, RdmaIssmFilePrefix, RdmaUmadFilxPrefix,
    RdmaUverbsFilxPrefix>>[r]

\* data is d between newlines
StripsTo(data, d) ==
  \E i, j \in 0..Len(data) :
    data = [x \in 1..i |-> NL] \o d \o [x \in 1..j |-> NL]

\* path is the device file of an entry of role r that refers back to d;
\* role 5 is the global rdma_cm
ValidFor(f, r, d, path) ==
  IF r = 5
    THEN path = RdmaUcmDevice
    ELSE /\ RoleDir(f, r).st = "ok"
         /\ \E e \in Range(RoleDir(f, r).entries) :
              /\ Contains(e.name, RolePrefix(r))
              /\ e.ibdev.st = "ok"
              /\ StripsTo(e.ibdev.data, d)
              /\ path = RdmaDeviceDir \o <<"/">> \o e.name

RECURSIVE Ascending(_)
Ascending(S) ==
  IF S = {} THEN <<>>
  ELSE LET m == CHOOSE x \in S : \A y \in S : x <= y
       IN  <<m>> \o Ascending(S \ {m})

\* list holds one valid path for each role of some set of roles, in the
\* order of the roles, and nothing else
OnePerRole(f, d, list) ==
  \E roles \in SUBSET (1..5) :
    /\ Len(list) = Cardinality(roles)
    /\ \A i \in 1..Len(list) : ValidFor(f, Ascending(roles)[i], d, list[i])

CharCall == pc = "done" /\ call.op = "GetRdmaCharDevices"

(* C4: in every filesystem state, class directories that are absent or     *)
(* cannot be listed included, GetRdmaCharDevices(D) returns at most one    *)
(* path per role and at most one global rdma_cm; each path of a role is    *)
(* /dev/infiniband/<E> for an entry E of the role's class directory whose  *)
(* name contains the role's prefix and whose ibdev content, trimmed, is D; *)
(* a role without such an entry contributes nothing, no empty path.        *)
C4_OnePerRole ==
  CharCall =>
    /\ OnePerRole(fs, call.name, ret.list)
    /\ \A i \in 1..Len(ret.list) : ret.list[i] # <<>>

\* The same, for the states where every class directory that opens lists
C4_WhenListable ==
  (CharCall /\ \A r \in 1..4 : RoleDir(fs, r).st # "ENOTDIR") =>
    /\ OnePerRole(fs, call.name, ret.list)
    /\ \A i \in 1..Len(ret.list) : ret.list[i] # <<>>

-----------------------------------------------------------------------------
(* The enumeration operations on directories of many shapes.               *)

BusDirs ==
  {NoDir, NotDir} \cup
  UNION {{Dir([i \in 1..Len(q) |-> BusEntry(q[i], c[i])]) :
            c \in [1..Len(q) -> {"dir", "file", "link"}]} :
         q \in InjSeqs(DevNames, MaxDevs)}

InitEnum ==
  /\ fs \in {[TypicalFs EXCEPT !.classdir = c] : c \in EthClassDirs}
            \cup {[TypicalFs EXCEPT !.pci = (pci0 :> b)] : b \in BusDirs}
            \cup {[TypicalFs EXCEPT !.aux = (aux0 :> b)] : b \in BusDirs}
  /\ links \in {[n \in {} |-> noLink("")]}
  /\ StartIdle

NextEnum ==
  \/ CallGetRdmaDeviceList
  \/ \E d \in DevNames \cup {nosuch} : CallGetPorts(d)
  \/ \E d \in DevNames \cup {nosuch}, p \in PortNames \cup {<<"9">>} :
       CallGetNetdeviceIds(d, p)
  \/ \E k \in BusKeys \cup {nosuch} : CallGetRdmaDevicesForPcidev(k)
  \/ \E k \in BusKeys \cup {nosuch} : CallGetRdmaDevicesForAuxdev(k)

SpecEnum == InitEnum /\ [][NextEnum]_vars

\* list is exactly the names of the entries of d whose kind is not in
\* skipped, each once, in the order of the listing
ExactlyThe(list, d, skipped) ==
  /\ Range(list) = {e.name : e \in {x \in Range(d.entries) : x.kind \notin skipped}}
  /\ Len(list) = Cardinality(Range(list))
  /\ \A i, j \in 1..Len(list) :
       i < j => (CHOOSE k \in 1..Len(d.entries) : d.entries[k].name = list[i])
                  < (CHOOSE k \in 1..Len(d.entries) : d.entries[k].name = list[j])

\* list is the names of all the entries of d, in the order of the listing
AllOf(list, d) == list = [i \in 1..Len(d.entries) |-> d.entries[i].name]

\* The directory an enumeration call lists
EnumDir ==
  CASE call.op = "GetRdmaDeviceList" -> fs.classdir
    [] call.op = "GetPorts" -> PortsDirOf(fs, call.name)
    [] call.op = "getNetdeviceIds" -> NdevsDirOf(fs, call.name, call.port)
    [] call.op = "GetRdmaDevicesForPcidev" -> BusDirOf(fs.pci, call.name)
    [] call.op = "GetRdmaDevicesForAuxdev" -> BusDirOf(fs.aux, call.name)

EnumOps ==
  {"GetRdmaDeviceList", "GetPorts", "getNetdeviceIds",
   "GetRdmaDevicesForPcidev", "GetRdmaDevicesForAuxdev"}

(* C8: the enumeration operations never fail: on a directory that is       *)
(* absent, empty or cannot be listed each returns the empty sequence and   *)
(* no error; otherwise GetRdmaDeviceList returns exactly the entries of    *)
(* the class root that are no directories, the bus-device operations       *)
(* exactly the directories of <bus-root>/<key>/infiniband, and GetPorts    *)
(* and getNetdeviceIds the entries of the directory they list.             *)
C8_Enumerate ==
  (call.op \in EnumOps) =>
    /\ pc = "done"
    /\ ret.err = NilErr
    /\ (EnumDir.st # "ok" \/ EnumDir.entries = <<>>) => ret.list = <<>>
    /\ EnumDir.st = "ok" =>
         CASE call.op = "GetRdmaDeviceList" ->
                ExactlyThe(ret.list, EnumDir, {"dir"})
           [] call.op \in {"GetRdmaDevicesForPcidev", "GetRdmaDevicesForAuxdev"} ->
                ExactlyThe(ret.list, EnumDir, {"file", "link"})
           [] OTHER -> AllOf(ret.list, EnumDir)

\* A class root of a directory and a device: the device alone is returned
C8_Witness ==
  /\ pc = "done"
  /\ call.op = "GetRdmaDeviceList"
  /\ fs.classdir.st = "ok"
  /\ Len(fs.classdir.entries) = 2
  /\ fs.classdir.entries[1].kind = "dir"
  /\ ret.list = <<fs.classdir.entries[2].name>>

-----------------------------------------------------------------------------
(* The scans against a filesystem that loses entries while they run.       *)

RaceShapes ==
  {Shape("link", OnePort(File(n \o <<NL>>)), File(g)) :
     n \in {eth0, eth1}, g \in {G1Text, G2Text}}

InitRace ==
  /\ fs \in {[BaseFs EXCEPT !.classdir = c] : c \in ClassDirsOver(RaceShapes)}
  /\ links \in {[n \in {} |-> noLink("")]}
  /\ StartIdle

\* A scan has listed the class root and has not returned yet
Scanning == pc \in {"eth_dev", "eth_port", "eth_index", "ib_dev"}

Vanish ==
  /\ Scanning
  /\ \/ \E d \in DevNames : RemoveDevice(d)
     \/ \E d \in DevNames : RemoveNodeGuid(d)
     \/ \E d \in DevNames, p \in PortNames : RemovePort(d, p)
     \/ \E d \in DevNames, p \in PortNames, x \in IdxNames : RemoveNdev(d, p, x)

NextRace ==
  \/ \E n \in {eth0, eth1} : CallGetRdmaDeviceForEth(n)
  \/ \E eui \in {G1Bytes, G2Bytes} : CallGetRdmaDeviceForIb(HwAddr(20, eui))
  \/ Scan
  \/ Vanish

SpecRace == InitRace /\ [][NextRace]_vars

\* A device the scan listed is still there and still matches
EthMatchLeft == EthOwners(fs, call.name) \cap Range(loc.devices) # {}
IbMatchLeft ==
  \E e \in Listed(fs) : e.name \in Range(loc.devices) /\ GuidIs(e, loc.lleui64)

(* C9: when entries vanish between the step that lists them and the step   *)
(* that opens them, each scan, Ethernet and InfiniBand, takes a vanished   *)
(* entry as a not-found for that candidate alone: the scan goes on, still  *)
(* returns a device when one that matches is still present, and no         *)
(* vanished entry makes the scan fail with an error of its own.            *)
C9_VanishBenign ==
  /\ (pc = "done" /\ call.op = "getRdmaDeviceForEth") =>
       /\ ret.err \in {NilErr, ErrNotFound}
       /\ EthMatchLeft => (ret.err = NilErr /\ ret.name \in Range(loc.devices))
  /\ (pc = "done" /\ call.op = "getRdmaDeviceForIb") =>
       /\ ret.err = NilErr
       /\ IbMatchLeft => (ret.err = NilErr /\ ret.name \in Range(loc.devices))

\* The Ethernet half of C9 alone
C9_EthBenign ==
  (pc = "done" /\ call.op = "getRdmaDeviceForEth") =>
    /\ ret.err \in {NilErr, ErrNotFound}
    /\ EthMatchLeft => (ret.err = NilErr /\ ret.name \in Range(loc.devices))

====
